---------------------------- MODULE Spec2Model ----------------------------
(***************************************************************************)
(* Model of src/auth-service.js: the register and login handlers of the    *)
(* authentication microservice, the in-memory attempt tracker, the user    *)
(* Map and its users.json image, and the wall clock read by Date.now().    *)
(* A second specification, SpecVariant, models the variant of the service  *)
(* listed in src/README.md, with async handlers and refresh tokens.        *)
(*                                                                         *)
(* Each Express handler is synchronous JavaScript: it runs to completion   *)
(* on the event loop, so one handler is one atomic action, and concurrent  *)
(* requests are handlers taken in any order.  The Date.now() calls of one  *)
(* handler read the same millisecond.                                      *)
(***************************************************************************)
EXTENDS Integers, Sequences, FiniteSets, TLC

VARIABLES
    users,      \* the users Map, as its entries in insertion order
    disk,       \* users.json: NoFile, or the array last written to it
    attempts,   \* the attempts Map: email -> [count, last]
    now,        \* the value Date.now() returns, in milliseconds
    uuids,      \* how many ids uuidv4() has handed out
    resp,       \* the last request handled, when, and the response sent;
                \* for a login also what the handler evaluated (checked,
                \* compared) and the attempts entry it found (prior)
    charged,    \* observer: failed logins per email since that email's
                \* attempt entry was last deleted
    issued,     \* observer, kept under SpecWithTokens: the access tokens
                \* login has returned, each with its email and the
                \* instant it was signed at
    loginAttempts,  \* README variant: the loginAttempts Map
    refreshTokens,  \* README variant: the refreshTokens Map
    pending         \* README variant: the login handlers suspended at
                    \* await verifyPassword, in the order they suspended

\* The state the variant of src/README.md adds, and the state only
\* src/auth-service.js has.
variantVars == <<loginAttempts, refreshTokens, pending>>
serviceVars == <<attempts, charged, issued>>

vars == <<users, disk, attempts, now, uuids, resp, charged, issued,
          loginAttempts, refreshTokens, pending>>

----------------------------------------------------------------------------
(* Bounds of the model *)

\* The clock is read when the service starts (instant 0), exactly one
\* lockout window later, and at each of the MaxLate milliseconds after that.
MaxLate == 1

----------------------------------------------------------------------------
(* Configuration, src/auth-service.js lines 37-40 *)

ACCESS_EXP == "15m"
MAX_ATTEMPTS == 5
LOCKOUT_MS == 15 * 60 * 1000

\* jsonwebtoken reads expiresIn '15m' as a time span and adds it, in
\* seconds, to the issue time.
TimespanSeconds(span) ==
    CASE span = "15m" -> 15 * 60
      [] span = "7d" -> 7 * 24 * 60 * 60

----------------------------------------------------------------------------
(* Request inputs *)

Undefined == "undefined"     \* a field the request body does not carry
NoFile == <<"no-file">>      \* users.json does not exist
Null == <<"null">>           \* JavaScript null

\* A password is the sequence of its characters; <<>> is the empty
\* string (or a missing field): both are falsy in JavaScript.
ShortPw == <<"p", "w">>
LongPw == <<"s", "e", "c", "r", "e", "t", "1">>

Emails == {"", "a@x.com", "b@x.com"}

\* The request bodies sent to POST /auth/register: <<email, password, name>>.
\* The last two lack a field.
RegisterRequests ==
    { <<"a@x.com", LongPw, "Al">>,
      <<"b@x.com", ShortPw, Undefined>>,
      <<"", LongPw, Undefined>>,
      <<"a@x.com", <<>>, "Al">> }

\* The request bodies sent to POST /auth/login: <<email, password>>.
\* a@x.com presents its password or another one; b@x.com its password,
\* which is wrong as long as b@x.com is not registered.
LoginRequests ==
    { <<"a@x.com", LongPw>>,
      <<"a@x.com", ShortPw>>,
      <<"b@x.com", ShortPw>>,
      <<"", LongPw>>,
      <<"a@x.com", <<>> >> }

\* The instants at which the clock is observed.
Instants == {0} \cup {LOCKOUT_MS + j : j \in 0..MaxLate}

----------------------------------------------------------------------------
(* JavaScript Map, for the users collection: entries <<key, value>> in     *)
(* insertion order.                                                        *)

MapHas(m, k) == \E i \in 1..Len(m) : m[i][1] = k

MapGet(m, k) ==
    IF MapHas(m, k)
    THEN m[CHOOSE i \in 1..Len(m) : m[i][1] = k][2]
    ELSE Undefined

\* Map.prototype.set: replaces the value in place, or appends the entry.
MapSet(m, k, v) ==
    IF MapHas(m, k)
    THEN [i \in 1..Len(m) |-> IF m[i][1] = k THEN <<k, v>> ELSE m[i]]
    ELSE Append(m, <<k, v>>)

----------------------------------------------------------------------------
(* Persistence, lines 14-32 *)

\* JSON.stringify(Array.from(users.entries())): the array of [key, value]
\* pairs in insertion order.  The write itself is taken to succeed; a
\* failed write is caught and logged (lines 29-31) and changes nothing
\* the handlers read.
saveUsers(u) == [i \in 1..Len(u) |-> <<u[i][1], u[i][2]>>]

\* new Map(JSON.parse(data)), or an empty Map without a readable file.
loadUsers(file) == IF file = NoFile THEN <<>> ELSE file

----------------------------------------------------------------------------
(* Attempt tracker, lines 43-59.  The attempts Map is a function whose     *)
(* domain is the set of emails that have an entry.                         *)

NoEntry == [count |-> 0, last |-> 0]

NoAttempts == [k \in {} |-> NoEntry]

\* attempts.get(email), NoEntry standing for undefined.
AttemptsGet(att, email) == IF email \in DOMAIN att THEN att[email] ELSE NoEntry

AttemptsDelete(att, email) ==
    [k \in DOMAIN att \ {email} |-> att[k]]

AttemptsSet(att, email, v) ==
    [k \in DOMAIN att \cup {email} |-> IF k = email THEN v ELSE att[k]]

\* A variant of Expired that takes the window's last instant as elapsed.
ExpiredAtBoundary(a, t) == t - a.last >= LOCKOUT_MS

\* The window test of line 48.
Expired(a, t) == t - a.last > LOCKOUT_MS

\* A variant of checkAttempts that locks one failure late (count > MAX).
checkAttemptsOffByOne(att, email, t) ==
    IF email \notin DOMAIN att
    THEN [allowed |-> TRUE, remaining |-> MAX_ATTEMPTS, att |-> att,
          deleted |-> FALSE]
    ELSE IF Expired(att[email], t)
    THEN [allowed |-> TRUE, remaining |-> MAX_ATTEMPTS,
          att |-> AttemptsDelete(att, email), deleted |-> TRUE]
    ELSE IF att[email].count > MAX_ATTEMPTS
    THEN [allowed |-> FALSE, remaining |-> 0, att |-> att, deleted |-> FALSE]
    ELSE [allowed |-> TRUE, remaining |-> MAX_ATTEMPTS - att[email].count,
          att |-> att, deleted |-> FALSE]

\* A variant of checkAttempts that tests the threshold before the window.
checkAttemptsThresholdFirst(att, email, t) ==
    IF email \notin DOMAIN att
    THEN [allowed |-> TRUE, remaining |-> MAX_ATTEMPTS, att |-> att,
          deleted |-> FALSE]
    ELSE IF att[email].count >= MAX_ATTEMPTS
    THEN [allowed |-> FALSE, remaining |-> 0, att |-> att, deleted |-> FALSE]
    ELSE IF Expired(att[email], t)
    THEN [allowed |-> TRUE, remaining |-> MAX_ATTEMPTS,
          att |-> AttemptsDelete(att, email), deleted |-> TRUE]
    ELSE [allowed |-> TRUE, remaining |-> MAX_ATTEMPTS - att[email].count,
          att |-> att, deleted |-> FALSE]

\* A variant of checkAttempts that restarts the window of a locked entry.
checkAttemptsTouchesLocked(att, email, t) ==
    IF email \notin DOMAIN att
    THEN [allowed |-> TRUE, remaining |-> MAX_ATTEMPTS, att |-> att,
          deleted |-> FALSE]
    ELSE IF Expired(att[email], t)
    THEN [allowed |-> TRUE, remaining |-> MAX_ATTEMPTS,
          att |-> AttemptsDelete(att, email), deleted |-> TRUE]
    ELSE IF att[email].count >= MAX_ATTEMPTS
    THEN [allowed |-> FALSE, remaining |-> 0,
          att |-> [att EXCEPT ![email].last = t], deleted |-> FALSE]
    ELSE [allowed |-> TRUE, remaining |-> MAX_ATTEMPTS - att[email].count,
          att |-> att, deleted |-> FALSE]

\* A variant of checkAttempts that reports the full allowance whenever it
\* allows.
checkAttemptsFullRemaining(att, email, t) ==
    IF email \notin DOMAIN att
    THEN [allowed |-> TRUE, remaining |-> MAX_ATTEMPTS, att |-> att,
          deleted |-> FALSE]
    ELSE IF Expired(att[email], t)
    THEN [allowed |-> TRUE, remaining |-> MAX_ATTEMPTS,
          att |-> AttemptsDelete(att, email), deleted |-> TRUE]
    ELSE IF att[email].count >= MAX_ATTEMPTS
    THEN [allowed |-> FALSE, remaining |-> 0, att |-> att, deleted |-> FALSE]
    ELSE [allowed |-> TRUE, remaining |-> MAX_ATTEMPTS,
          att |-> att, deleted |-> FALSE]

\* checkAttempts(email) at time t: the verdict, and the attempts Map it
\* leaves behind (line 48 deletes an expired entry).
checkAttempts(att, email, t) ==
    IF email \notin DOMAIN att
    THEN [allowed |-> TRUE, remaining |-> MAX_ATTEMPTS, att |-> att,
          deleted |-> FALSE]
    ELSE IF Expired(att[email], t)
    THEN [allowed |-> TRUE, remaining |-> MAX_ATTEMPTS,
          att |-> AttemptsDelete(att, email), deleted |-> TRUE]
    ELSE IF att[email].count >= MAX_ATTEMPTS
    THEN [allowed |-> FALSE, remaining |-> 0, att |-> att, deleted |-> FALSE]
    ELSE [allowed |-> TRUE, remaining |-> MAX_ATTEMPTS - att[email].count,
          att |-> att, deleted |-> FALSE]

\* A variant of recordAttempt that keeps the entry on success.
recordAttemptKeepsOnSuccess(att, email, ok, t) ==
    IF ok
    THEN att
    ELSE LET prev == AttemptsGet(att, email)
         IN  AttemptsSet(att, email, [count |-> prev.count + 1, last |-> t])

\* A variant of recordAttempt that loses the update: it counts from the
\* default entry, not from the one stored.
recordAttemptLostUpdate(att, email, ok, t) ==
    IF ok
    THEN AttemptsDelete(att, email)
    ELSE LET prev == NoEntry
         IN  AttemptsSet(att, email, [count |-> prev.count + 1, last |-> t])

\* A variant of recordAttempt with a fixed window: last keeps the time of
\* the first failure of the run.
recordAttemptFixedWindow(att, email, ok, t) ==
    IF ok
    THEN AttemptsDelete(att, email)
    ELSE LET prev == AttemptsGet(att, email)
         IN  AttemptsSet(att, email,
                         [count |-> prev.count + 1,
                          last |-> IF prev.count = 0 THEN t ELSE prev.last])

\* recordAttempt(email, ok) at time t: the attempts Map it leaves behind.
recordAttempt(att, email, ok, t) ==
    IF ok
    THEN AttemptsDelete(att, email)
    ELSE LET prev == AttemptsGet(att, email)
         IN  AttemptsSet(att, email, [count |-> prev.count + 1, last |-> t])

----------------------------------------------------------------------------
(* Token issuance, lines 61-63 *)

\* A variant of generateAccess that signs no issue time.
generateAccessWithoutIat(email, id, t) ==
    [email |-> email, userId |-> id, iat |-> 0,
     exp |-> TimespanSeconds(ACCESS_EXP)]

\* jwt.sign(payload, secret, {expiresIn}): the signed claims.  iat is the
\* issue time in whole seconds, exp is iat plus the time span; the
\* signature is a function of the claims and the secret.
generateAccess(email, id, t) ==
    LET iat == t \div 1000
    IN  [email |-> email, userId |-> id, iat |-> iat,
         exp |-> iat + TimespanSeconds(ACCESS_EXP)]

\* new Date().toISOString(): the instant as text.
toISOString(t) == <<"iso", t>>

----------------------------------------------------------------------------
(* Initial state: the module has just been loaded, no users.json exists.   *)

NoRequest ==
    [op |-> "none", email |-> "", password |-> <<>>, name |-> Undefined]

Init ==
    /\ disk = NoFile
    /\ users = loadUsers(NoFile)
    /\ attempts = NoAttempts
    /\ now = 0
    /\ uuids = 0
    /\ resp = [req |-> NoRequest, status |-> 0, body |-> [none |-> TRUE],
               at |-> 0]
    /\ charged = [e \in Emails |-> 0]
    /\ issued = {}
    /\ loginAttempts = NoAttempts
    /\ refreshTokens = [k \in {} |-> Null]
    /\ pending = <<>>

----------------------------------------------------------------------------
(* The clock moves between requests. *)

Tick ==
    /\ \E t \in Instants : t > now /\ now' = t
    /\ UNCHANGED <<users, disk, attempts, uuids, resp, charged, issued>>
    /\ UNCHANGED variantVars

----------------------------------------------------------------------------
(* POST /auth/register, lines 66-74 *)

\* name || ''
OrEmpty(name) == IF name = Undefined \/ name = "" THEN "" ELSE name

\* A variant of RegisterResult without the users.has(email) test.
RegisterResultOverwrites(u, email, password, name, id) ==
    IF email = "" \/ password = <<>>
    THEN [status |-> 400, body |-> [error |-> "email and password required"],
          users |-> u, saved |-> FALSE]
    ELSE [status |-> 201,
          body |-> [message |-> "registered",
                    user |-> [id |-> id, email |-> email,
                              name |-> OrEmpty(name)]],
          users |-> MapSet(u, email,
                           [id |-> id, email |-> email,
                            name |-> OrEmpty(name), password |-> password,
                            lastLogin |-> Null]),
          saved |-> TRUE]

\* What the handler does with the users Map u when uuidv4() returns id:
\* the status and body it sends, the Map it leaves, and whether it called
\* saveUsers.
RegisterResult(u, email, password, name, id) ==
    IF email = "" \/ password = <<>>
    THEN [status |-> 400, body |-> [error |-> "email and password required"],
          users |-> u, saved |-> FALSE]
    ELSE IF MapHas(u, email)
    THEN [status |-> 409, body |-> [error |-> "user exists"],
          users |-> u, saved |-> FALSE]
    ELSE [status |-> 201,
          body |-> [message |-> "registered",
                    user |-> [id |-> id, email |-> email,
                              name |-> OrEmpty(name)]],
          users |-> MapSet(u, email,
                           [id |-> id, email |-> email,
                            name |-> OrEmpty(name), password |-> password,
                            lastLogin |-> Null]),
          saved |-> TRUE]

\* A variant of Register that clears the attempts entry of the email it
\* registers.
RegisterClearsAttempts(email, password, name) ==
    LET r == RegisterResult(users, email, password, name, uuids + 1)
    IN  /\ users' = r.users
        /\ uuids' = IF r.status = 201 THEN uuids + 1 ELSE uuids
        /\ disk' = IF r.saved THEN saveUsers(r.users) ELSE disk
        /\ resp' = [req |-> [op |-> "register", email |-> email,
                             password |-> password, name |-> name],
                    status |-> r.status, body |-> r.body, at |-> now]
        /\ attempts' = IF r.status = 201
                       THEN AttemptsDelete(attempts, email)
                       ELSE attempts
        /\ charged' = IF r.status = 201
                      THEN [charged EXCEPT ![email] = 0]
                      ELSE charged
        /\ UNCHANGED <<now, issued>>
        /\ UNCHANGED variantVars

Register(email, password, name) ==
    LET r == RegisterResult(users, email, password, name, uuids + 1)
    IN  /\ users' = r.users
        /\ uuids' = IF r.status = 201 THEN uuids + 1 ELSE uuids
        /\ disk' = IF r.saved THEN saveUsers(r.users) ELSE disk
        /\ resp' = [req |-> [op |-> "register", email |-> email,
                             password |-> password, name |-> name],
                    status |-> r.status, body |-> r.body, at |-> now]
        /\ UNCHANGED <<attempts, now, charged, issued>>
        /\ UNCHANGED variantVars

----------------------------------------------------------------------------
(* POST /auth/login, lines 76-93 *)

\* a.remaining || 0
OrZero(n) == IF n = 0 THEN 0 ELSE n

\* A variant of CredentialsFail that rejects unknown emails only.
CredentialsFailUnknownOnly(u, email, password) == ~MapHas(u, email)

\* The test of line 82: !user || user.password !== password.
CredentialsFail(u, email, password) ==
    ~MapHas(u, email) \/ MapGet(u, email).password # password

\* A variant of SetLastLogin that stamps every record of the Map.
SetLastLoginOfAll(u, email, stamp) ==
    [i \in 1..Len(u) |-> <<u[i][1], [u[i][2] EXCEPT !.lastLogin = stamp]>>]

\* user.lastLogin = ...: the record is mutated inside the Map.
SetLastLogin(u, email, stamp) ==
    MapSet(u, email, [MapGet(u, email) EXCEPT !.lastLogin = stamp])

\* A variant of LoginResult that answers an unknown email before looking
\* at the attempts Map, and does not charge it.
LoginResultUnknownNotCharged(u, att, email, password, t) ==
    IF email = "" \/ password = <<>>
    THEN [status |-> 400, body |-> [error |-> "email and password required"],
          users |-> u, att |-> att, saved |-> FALSE,
          checked |-> FALSE, compared |-> FALSE, deleted |-> FALSE]
    ELSE IF ~MapHas(u, email)
    THEN [status |-> 401,
          body |-> [error |-> "invalid credentials",
                    remaining |-> MAX_ATTEMPTS],
          users |-> u, att |-> att, saved |-> FALSE,
          checked |-> FALSE, compared |-> FALSE, deleted |-> FALSE]
    ELSE LET a == checkAttempts(att, email, t)
         IN  IF ~a.allowed
             THEN [status |-> 429, body |-> [error |-> "too many attempts"],
                   users |-> u, att |-> a.att, saved |-> FALSE,
                   checked |-> TRUE, compared |-> FALSE,
                   deleted |-> a.deleted]
             ELSE IF CredentialsFail(u, email, password)
             THEN [status |-> 401,
                   body |-> [error |-> "invalid credentials",
                             remaining |-> OrZero(a.remaining) - 1],
                   users |-> u,
                   att |-> recordAttempt(a.att, email, FALSE, t),
                   saved |-> FALSE,
                   checked |-> TRUE, compared |-> TRUE,
                   deleted |-> a.deleted]
             ELSE LET user == MapGet(u, email)
                  IN  [status |-> 200,
                       body |-> [accessToken |->
                                     generateAccess(user.email, user.id, t),
                                 expiresIn |-> ACCESS_EXP],
                       users |-> SetLastLogin(u, email, toISOString(t)),
                       att |-> recordAttempt(a.att, email, TRUE, t),
                       saved |-> TRUE,
                       checked |-> TRUE, compared |-> TRUE,
                       deleted |-> TRUE]

\* What the handler does with the users Map u and the attempts Map att
\* at time t.  compared tells whether line 82 evaluated the password
\* comparison; deleted, whether an attempts entry of email was deleted.
LoginResult(u, att, email, password, t) ==
    IF email = "" \/ password = <<>>
    THEN [status |-> 400, body |-> [error |-> "email and password required"],
          users |-> u, att |-> att, saved |-> FALSE,
          checked |-> FALSE, compared |-> FALSE, deleted |-> FALSE]
    ELSE LET a == checkAttempts(att, email, t)
         IN  IF ~a.allowed
             THEN [status |-> 429, body |-> [error |-> "too many attempts"],
                   users |-> u, att |-> a.att, saved |-> FALSE,
                   checked |-> TRUE, compared |-> FALSE,
                   deleted |-> a.deleted]
             ELSE IF CredentialsFail(u, email, password)
             THEN [status |-> 401,
                   body |-> [error |-> "invalid credentials",
                             remaining |-> OrZero(a.remaining) - 1],
                   users |-> u,
                   att |-> recordAttempt(a.att, email, FALSE, t),
                   saved |-> FALSE,
                   checked |-> TRUE, compared |-> MapHas(u, email),
                   deleted |-> a.deleted]
             ELSE LET user == MapGet(u, email)
                  IN  [status |-> 200,
                       body |-> [accessToken |->
                                     generateAccess(user.email, user.id, t),
                                 expiresIn |-> ACCESS_EXP],
                       users |-> SetLastLogin(u, email, toISOString(t)),
                       att |-> recordAttempt(a.att, email, TRUE, t),
                       saved |-> TRUE,
                       checked |-> TRUE, compared |-> TRUE,
                       deleted |-> TRUE]

Login(email, password) ==
    LET r == LoginResult(users, attempts, email, password, now)
    IN  /\ users' = r.users
        /\ attempts' = r.att
        /\ disk' = IF r.saved THEN saveUsers(r.users) ELSE disk
        /\ resp' = [req |-> [op |-> "login", email |-> email,
                             password |-> password, name |-> Undefined],
                    status |-> r.status, body |-> r.body,
                    checked |-> r.checked, compared |-> r.compared,
                    prior |-> AttemptsGet(attempts, email), at |-> now]
        /\ charged' = [charged EXCEPT ![email] =
                           IF r.status = 401
                           THEN (IF r.deleted THEN 0 ELSE @) + 1
                           ELSE IF r.deleted THEN 0 ELSE @]
        /\ UNCHANGED <<now, uuids>>
        /\ UNCHANGED variantVars

----------------------------------------------------------------------------

Next ==
    \/ Tick
    \/ \E r \in RegisterRequests : Register(r[1], r[2], r[3])
    \/ \E r \in LoginRequests : Login(r[1], r[2]) /\ UNCHANGED issued

Spec == Init /\ [][Next]_vars

\* The same service, with every access token that login returns kept in
\* issued, with the email it is for and the instant it was signed at.
NextWithTokens ==
    \/ Tick
    \/ \E r \in RegisterRequests : Register(r[1], r[2], r[3])
    \/ \E r \in LoginRequests :
           /\ Login(r[1], r[2])
           /\ issued' = IF resp'.status = 200
                        THEN issued \cup {[email |-> r[1], at |-> now,
                                           token |-> resp'.body.accessToken]}
                        ELSE issued

SpecWithTokens == Init /\ [][NextWithTokens]_vars

----------------------------------------------------------------------------
(* The variant of the service listed in src/README.md, lines 144-317: the  *)
(* handlers are async functions, login awaits verifyPassword between       *)
(* checkLoginAttempts and recordLoginAttempt, register tests the password  *)
(* length, and login also issues a refresh token that POST /auth/refresh   *)
(* exchanges for a new access token.  It uses users, disk, now, uuids and  *)
(* resp as above, and loginAttempts, refreshTokens and pending.            *)
(*                                                                         *)
(* An async handler runs synchronously up to its first await; what follows *)
(* the await runs later, as a job of the promise queue, and the jobs run   *)
(* in the order they were queued.  Handlers of other requests that start   *)
(* before the job runs see the state the suspended handler left.           *)

\* At most MaxPending login handlers are suspended at a time, and login
\* issues at most MaxTokens refresh tokens.
MaxPending == 2
MaxTokens == 2

\* Config, README lines 187-192.
JWT_SECRET == "dev-secret"
JWT_REFRESH_SECRET == "dev-refresh-secret"
ACCESS_TOKEN_EXPIRY == "15m"
REFRESH_TOKEN_EXPIRY == "7d"
MAX_LOGIN_ATTEMPTS == 5
LOCKOUT_TIME == 15 * 60 * 1000

\* The request bodies sent to the variant's register and login.
VariantRegisterRequests ==
    { <<"a@x.com", LongPw, "Al">>,
      <<"b@x.com", ShortPw, Undefined>>,
      <<"", LongPw, Undefined>> }

VariantLoginRequests ==
    { <<"a@x.com", LongPw>>,
      <<"a@x.com", ShortPw>>,
      <<"", LongPw>> }

\* The instants at which the variant's clock is observed: the start, just
\* after one lockout time, and when a refresh token of the start expires.
VariantInstants ==
    {0, LOCKOUT_TIME + 1, TimespanSeconds(REFRESH_TOKEN_EXPIRY) * 1000}

\* jwt.sign(payload, secret, {expiresIn}): the claims, with iat and exp in
\* whole seconds, and the secret the signature was made with.
jwtSign(payload, secret, span, t) ==
    LET iat == t \div 1000
        extra == [iat |-> iat, exp |-> iat + TimespanSeconds(span),
                  secret |-> secret]
    IN  [f \in DOMAIN payload \cup DOMAIN extra |->
            IF f \in DOMAIN payload THEN payload[f] ELSE extra[f]]

\* jwt.verify(token, secret): the signature is of that secret and the
\* token has not expired.  A body without a token is caught before.
jwtVerify(token, secret, t) ==
    /\ "secret" \in DOMAIN token
    /\ token.secret = secret
    /\ t \div 1000 < token.exp

\* generateTokens(userId, email), lines 204-209, with the uuid it draws.
generateTokens(userId, email, tokenId, t) ==
    [accessToken |->
         jwtSign([userId |-> userId, email |-> email, type |-> "access"],
                 JWT_SECRET, ACCESS_TOKEN_EXPIRY, t),
     refreshToken |->
         jwtSign([userId |-> userId, email |-> email, tokenId |-> tokenId,
                  type |-> "refresh"],
                 JWT_REFRESH_SECRET, REFRESH_TOKEN_EXPIRY, t),
     tokenId |-> tokenId]

\* Math.ceil(ms / 60000) for ms >= 0.
CeilMinutes(ms) == (ms + 59999) \div 60000

\* checkLoginAttempts(email), lines 211-223: its result and the
\* loginAttempts Map it leaves.
checkLoginAttempts(att, email, t) ==
    IF email \notin DOMAIN att
    THEN [allowed |-> TRUE, remaining |-> MAX_LOGIN_ATTEMPTS,
          minutesLeft |-> 0, att |-> att]
    ELSE IF t - att[email].lastAttempt > LOCKOUT_TIME
    THEN [allowed |-> TRUE, remaining |-> MAX_LOGIN_ATTEMPTS,
          minutesLeft |-> 0, att |-> AttemptsDelete(att, email)]
    ELSE IF att[email].count >= MAX_LOGIN_ATTEMPTS
    THEN [allowed |-> FALSE, remaining |-> 0,
          minutesLeft |->
              CeilMinutes(LOCKOUT_TIME - (t - att[email].lastAttempt)),
          att |-> att]
    ELSE [allowed |-> TRUE,
          remaining |-> MAX_LOGIN_ATTEMPTS - att[email].count,
          minutesLeft |-> 0, att |-> att]

\* recordLoginAttempt(email, success), lines 225-231.
recordLoginAttempt(att, email, success, t) ==
    IF success
    THEN AttemptsDelete(att, email)
    ELSE LET prev == IF email \in DOMAIN att
                     THEN att[email]
                     ELSE [count |-> 0, lastAttempt |-> 0]
         IN  AttemptsSet(att, email,
                         [count |-> prev.count + 1, lastAttempt |-> t])

\* The clock of the variant moves between the steps of its handlers.
VariantTick ==
    /\ \E t \in VariantInstants : t > now /\ now' = t
    /\ UNCHANGED <<users, disk, uuids, resp>>
    /\ UNCHANGED variantVars
    /\ UNCHANGED serviceVars

\* POST /auth/register of the variant, lines 236-251: no await, so the
\* handler is one step.
VariantRegisterResult(u, email, password, name, id) ==
    IF email = "" \/ password = <<>>
    THEN [status |-> 400,
          body |-> [error |-> "Email and password required"],
          users |-> u, saved |-> FALSE]
    ELSE IF Len(password) < 6
    THEN [status |-> 400, body |-> [error |-> "Password too short (>=6)"],
          users |-> u, saved |-> FALSE]
    ELSE IF MapHas(u, email)
    THEN [status |-> 409, body |-> [error |-> "User exists"],
          users |-> u, saved |-> FALSE]
    ELSE [status |-> 201,
          body |-> [message |-> "Registered",
                    user |-> [id |-> id, email |-> email,
                              name |-> OrEmpty(name)]],
          users |-> MapSet(u, email,
                           [id |-> id, email |-> email,
                            name |-> OrEmpty(name), password |-> password,
                            lastLogin |-> Null]),
          saved |-> TRUE]

VariantRegister(email, password, name) ==
    LET r == VariantRegisterResult(users, email, password, name, uuids + 1)
    IN  /\ users' = r.users
        /\ uuids' = IF r.status = 201 THEN uuids + 1 ELSE uuids
        /\ disk' = IF r.saved THEN saveUsers(r.users) ELSE disk
        /\ resp' = [req |-> [op |-> "register", email |-> email,
                             password |-> password, name |-> name],
                    status |-> r.status, body |-> r.body, at |-> now]
        /\ UNCHANGED <<now, loginAttempts, refreshTokens, pending>>
        /\ UNCHANGED serviceVars

\* POST /auth/login of the variant, lines 254-268: the handler up to its
\* await.  It answers 400, 429 or, for an unknown email, 401; for a known
\* email it calls verifyPassword, which compares at once and returns a
\* promise of the outcome, and suspends.
VariantLoginStart(email, password) ==
    LET a == checkLoginAttempts(loginAttempts, email, now)
        req == [op |-> "login", email |-> email, password |-> password,
                name |-> Undefined]
    IN  /\ Len(pending) < MaxPending
        /\ (MapHas(users, email) /\ MapGet(users, email).password = password)
               => Cardinality(DOMAIN refreshTokens)
                     + Len(SelectSeq(pending, LAMBDA p : p.ok)) < MaxTokens
        /\ IF email = "" \/ password = <<>>
           THEN /\ resp' = [req |-> req, status |-> 400,
                            body |-> [error |->
                                         "Email and password required"],
                            at |-> now]
                /\ UNCHANGED <<loginAttempts, pending>>
           ELSE IF ~a.allowed
           THEN /\ resp' = [req |-> req, status |-> 429,
                            body |-> [error |-> "Too many attempts",
                                      minutesLeft |-> a.minutesLeft],
                            at |-> now]
                /\ loginAttempts' = a.att
                /\ UNCHANGED pending
           ELSE IF ~MapHas(users, email)
           THEN /\ loginAttempts'
                      = recordLoginAttempt(a.att, email, FALSE, now)
                /\ resp' = [req |-> req, status |-> 401,
                            body |-> [error |-> "Invalid credentials",
                                      attemptsRemaining |->
                                          a.remaining - 1],
                            at |-> now]
                /\ UNCHANGED pending
           ELSE /\ loginAttempts' = a.att
                /\ pending' = Append(pending,
                                     [email |-> email,
                                      ok |-> password
                                             = MapGet(users, email).password])
                /\ UNCHANGED resp
        /\ UNCHANGED <<users, disk, now, uuids, refreshTokens>>
        /\ UNCHANGED serviceVars

\* Lines 269-283: the handler after its await, for the request that has
\* waited longest.
VariantLoginResume ==
    /\ pending # <<>>
    /\ LET p == Head(pending)
           user == MapGet(users, p.email)
           req == [op |-> "login", email |-> p.email, ok |-> p.ok]
       IN  IF ~p.ok
           THEN LET att == recordLoginAttempt(loginAttempts, p.email,
                                              FALSE, now)
                    a == checkLoginAttempts(att, p.email, now)
                IN  /\ loginAttempts' = a.att
                    /\ resp' = [req |-> req, status |-> 401,
                                body |-> [error |-> "Invalid credentials",
                                          attemptsRemaining |->
                                              a.remaining],
                                at |-> now]
                    /\ UNCHANGED <<users, disk, uuids, refreshTokens>>
           ELSE LET t == generateTokens(user.id, user.email, uuids + 1, now)
                    u == SetLastLogin(users, p.email, toISOString(now))
                IN  /\ loginAttempts'
                           = recordLoginAttempt(loginAttempts, p.email,
                                                TRUE, now)
                    /\ uuids' = uuids + 1
                    /\ refreshTokens'
                           = AttemptsSet(refreshTokens, t.tokenId,
                                         [token |-> t.refreshToken,
                                          userId |-> user.id,
                                          expiresAt |->
                                              t.refreshToken.exp * 1000])
                    /\ users' = u
                    /\ disk' = saveUsers(u)
                    /\ resp' = [req |-> req, status |-> 200,
                                body |-> [message |-> "Login successful",
                                          accessToken |-> t.accessToken,
                                          refreshToken |-> t.refreshToken,
                                          expiresIn |-> ACCESS_TOKEN_EXPIRY],
                                at |-> now]
    /\ pending' = Tail(pending)
    /\ UNCHANGED now
    /\ UNCHANGED serviceVars

\* A body that carries no refreshToken.
NoToken == [none |-> TRUE]

\* The bodies sent to POST /auth/refresh: none; each registered token as
\* login returned it; that token signed with another secret; a token for
\* another user and the same tokenId, signed with the default refresh
\* secret, which is public; the access token of the same login; and a
\* refresh token that an earlier process of the service issued.
RefreshRequests ==
    {NoToken,
     jwtSign([userId |-> 1, email |-> "a@x.com", tokenId |-> 0,
              type |-> "refresh"],
             JWT_REFRESH_SECRET, REFRESH_TOKEN_EXPIRY, 0)}
        \cup {refreshTokens[k].token : k \in DOMAIN refreshTokens}
        \cup {[refreshTokens[k].token EXCEPT !.secret = "other-secret"] :
                  k \in DOMAIN refreshTokens}
        \cup {[refreshTokens[k].token EXCEPT !.email = "b@x.com",
                                             !.userId = 0] :
                  k \in DOMAIN refreshTokens}
        \cup {jwtSign([userId |-> refreshTokens[k].userId,
                       email |-> refreshTokens[k].token.email,
                       type |-> "access"],
                      JWT_SECRET, ACCESS_TOKEN_EXPIRY,
                      refreshTokens[k].token.iat * 1000) :
                  k \in DOMAIN refreshTokens}

\* A variant of RefreshResult that consumes the refresh token.
RefreshResultConsumes(reg, token, t) ==
    IF token = NoToken
    THEN [status |-> 400, body |-> [error |-> "Refresh token required"],
          reg |-> reg]
    ELSE IF ~jwtVerify(token, JWT_REFRESH_SECRET, t)
    THEN [status |-> 401,
          body |-> [error |-> "Invalid or expired refresh token"],
          reg |-> reg]
    ELSE IF \/ "tokenId" \notin DOMAIN token
            \/ token.tokenId \notin DOMAIN reg
            \/ reg[token.tokenId].token # token
    THEN [status |-> 401, body |-> [error |-> "Refresh token not found"],
          reg |-> reg]
    ELSE [status |-> 200,
          body |-> [accessToken |->
                        jwtSign([userId |-> token.userId,
                                 email |-> token.email, type |-> "access"],
                                JWT_SECRET, ACCESS_TOKEN_EXPIRY, t),
                    expiresIn |-> ACCESS_TOKEN_EXPIRY],
          reg |-> AttemptsDelete(reg, token.tokenId)]

\* POST /auth/refresh, lines 291-310: the response and the refreshTokens
\* Map the handler leaves.
RefreshResult(reg, token, t) ==
    IF token = NoToken
    THEN [status |-> 400, body |-> [error |-> "Refresh token required"],
          reg |-> reg]
    ELSE IF ~jwtVerify(token, JWT_REFRESH_SECRET, t)
    THEN [status |-> 401,
          body |-> [error |-> "Invalid or expired refresh token"],
          reg |-> reg]
    ELSE IF \/ "tokenId" \notin DOMAIN token
            \/ token.tokenId \notin DOMAIN reg
            \/ reg[token.tokenId].token # token
    THEN [status |-> 401, body |-> [error |-> "Refresh token not found"],
          reg |-> reg]
    ELSE [status |-> 200,
          body |-> [accessToken |->
                        jwtSign([userId |-> token.userId,
                                 email |-> token.email, type |-> "access"],
                                JWT_SECRET, ACCESS_TOKEN_EXPIRY, t),
                    expiresIn |-> ACCESS_TOKEN_EXPIRY],
          reg |-> reg]

VariantRefresh(token) ==
    LET r == RefreshResult(refreshTokens, token, now)
    IN  /\ refreshTokens' = r.reg
        /\ resp' = [req |-> [op |-> "refresh", refreshToken |-> token],
                    status |-> r.status, body |-> r.body, at |-> now]
        /\ UNCHANGED <<users, disk, now, uuids, loginAttempts, pending>>
        /\ UNCHANGED serviceVars

NextVariant ==
    \/ VariantTick
    \/ \E r \in VariantRegisterRequests : VariantRegister(r[1], r[2], r[3])
    \/ \E r \in VariantLoginRequests : VariantLoginStart(r[1], r[2])
    \/ VariantLoginResume
    \/ \E token \in RefreshRequests : VariantRefresh(token)

SpecVariant == Init /\ [][NextVariant]_vars

----------------------------------------------------------------------------
(* Vocabulary of the properties *)

\* The stored record of a registered email.
Record(e) == MapGet(users, e)

\* The last request was a login for e that passed the field validation.
LoginServed(e) ==
    /\ resp.req.op = "login"
    /\ resp.req.email = e
    /\ resp.status # 400

\* e has reached the threshold and its window has not elapsed.
Locked(e) ==
    /\ charged[e] >= MAX_ATTEMPTS
    /\ now - AttemptsGet(attempts, e).last <= LOCKOUT_MS

HasToken(r) == "accessToken" \in DOMAIN r.body

----------------------------------------------------------------------------
(* C1.  After five consecutive failed logins for an identity, each within  *)
(* the lockout window of the one before, every further login made while    *)
(* now - lastFailure <= LOCKOUT_MS is answered 429, also with the stored   *)
(* password; that call compares no credential, issues no token and leaves  *)
(* the user records, lastLogin included, as they were.                     *)

C1_LockedLoginIsRejected ==
    [][\A r \in LoginRequests :
          (Locked(r[1]) /\ r[2] # <<>> /\ Login(r[1], r[2]))
              => /\ resp'.status = 429
                 /\ ~resp'.compared
                 /\ ~HasToken(resp')
                 /\ users' = users]_vars

\* A registered identity, locked out, presented its own password and got 429.
C1_Witness ==
    \E e \in Emails :
        /\ LoginServed(e)
        /\ MapHas(users, e)
        /\ Record(e).password = resp.req.password
        /\ resp.prior.count = MAX_ATTEMPTS
        /\ charged[e] = MAX_ATTEMPTS
        /\ resp.status = 429

----------------------------------------------------------------------------
(* C2.  A login returns a token (status 200) only if, when it is made,     *)
(* the identity is registered, the presented secret equals the stored      *)
(* one and the identity is not locked out; the token carries the           *)
(* record's email and id.  No other response carries a token.              *)

C2_TokenOnlyForValidLogin ==
    /\ HasToken(resp) <=> (resp.req.op = "login" /\ resp.status = 200)
    /\ \A e \in Emails :
           (LoginServed(e) /\ resp.status = 200)
               => /\ MapHas(users, e)
                  /\ Record(e).password = resp.req.password
                  /\ resp.checked
                  /\ resp.compared
                  /\ ~(/\ resp.prior.count >= MAX_ATTEMPTS
                        /\ resp.at - resp.prior.last <= LOCKOUT_MS)
                  /\ resp.body.accessToken.email = e
                  /\ resp.body.accessToken.email = Record(e).email
                  /\ resp.body.accessToken.userId = Record(e).id

\* A token was issued to a registered identity that had failures on record.
C2_Witness ==
    \E e \in Emails :
        /\ LoginServed(e)
        /\ resp.status = 200
        /\ HasToken(resp)
        /\ resp.prior.count \in 1..(MAX_ATTEMPTS - 1)
        /\ resp.body.accessToken.userId = Record(e).id

----------------------------------------------------------------------------
(* C3.  A successful login, whatever the attempt count before it, deletes  *)
(* the identity's attempt entry; the entry stays absent until the          *)
(* identity's next failed login, which reports remaining = 4 and leaves    *)
(* count = 1.                                                              *)

C3_SuccessResetsCount ==
    [][\A r \in LoginRequests :
          LET e == r[1]
          IN  /\ (Login(e, r[2]) /\ resp'.status = 200)
                     => e \notin DOMAIN attempts'
              /\ (e \notin DOMAIN attempts /\ e \in DOMAIN attempts')
                     => /\ resp'.req = [op |-> "login", email |-> e,
                                        password |-> resp'.req.password,
                                        name |-> Undefined]
                        /\ resp'.status = 401
                        /\ resp'.body.remaining = MAX_ATTEMPTS - 1
                        /\ attempts'[e].count = 1]_vars

\* An identity that has logged in successfully failed afterwards, with no
\* failure on record before: told 4 remain, count 1.
C3_Witness ==
    \E e \in Emails :
        /\ LoginServed(e)
        /\ MapHas(users, e)
        /\ Record(e).lastLogin # Null
        /\ resp.status = 401
        /\ resp.prior = NoEntry
        /\ resp.body.remaining = 4
        /\ attempts[e].count = 1

----------------------------------------------------------------------------
(* C4.  When an identity has count = 5 and more than LOCKOUT_MS has        *)
(* passed since its last failure, its next login deletes the entry and is  *)
(* evaluated as if there were none: 200 on the stored password, else 401   *)
(* with remaining = 4 and a new entry of count 1; never 429.               *)

C4_ExpiredLockoutAllows ==
    \A e \in Emails :
        (/\ LoginServed(e)
         /\ resp.prior.count = MAX_ATTEMPTS
         /\ resp.at - resp.prior.last > LOCKOUT_MS)
            => /\ resp.status \in {200, 401}
               /\ resp.status = 200
                      <=> (MapHas(users, e)
                           /\ Record(e).password = resp.req.password)
               /\ resp.status = 200 => e \notin DOMAIN attempts
               /\ resp.status = 401
                      => /\ resp.body.remaining = MAX_ATTEMPTS - 1
                         /\ e \in DOMAIN attempts
                         /\ attempts[e] = [count |-> 1, last |-> resp.at]

\* Both outcomes of the first login after an expired lockout.
C4_Witness ==
    \E e \in Emails :
        /\ LoginServed(e)
        /\ resp.prior.count = MAX_ATTEMPTS
        /\ resp.at - resp.prior.last > LOCKOUT_MS
        /\ resp.status = 200

C4_WitnessFailure ==
    \E e \in Emails :
        /\ LoginServed(e)
        /\ resp.prior.count = MAX_ATTEMPTS
        /\ resp.at - resp.prior.last > LOCKOUT_MS
        /\ resp.status = 401
        /\ resp.body.remaining = 4

----------------------------------------------------------------------------
(* C5.  As claimed: a login that finds an entry exactly at the window      *)
(* boundary, now - last = LOCKOUT_MS, is treated as if the entry had       *)
(* expired: it is allowed with the full allowance (never 429, a failure    *)
(* reports remaining = 4) and the old entry is discarded, also when        *)
(* count >= MAX_ATTEMPTS.                                                  *)

AtBoundary(e) ==
    /\ LoginServed(e)
    /\ resp.prior.count >= 1
    /\ resp.at - resp.prior.last = LOCKOUT_MS

C5_BoundaryCountsAsExpired ==
    \A e \in Emails :
        AtBoundary(e)
            => /\ resp.status \in {200, 401}
               /\ resp.status = 401
                      => /\ resp.body.remaining = MAX_ATTEMPTS - 1
                         /\ attempts[e] = [count |-> 1, last |-> resp.at]

(* C5, amended.  At the boundary the entry has not expired: with           *)
(* count >= MAX_ATTEMPTS the login is answered 429 and the entry is kept   *)
(* as it was; with a smaller count the login is allowed with               *)
(* remaining = MAX_ATTEMPTS - count, so a failure reports one less and     *)
(* raises the count by one.  Only now - last > LOCKOUT_MS discards.        *)

C5_BoundaryIsInsideWindow ==
    \A e \in Emails :
        AtBoundary(e)
            => IF resp.prior.count >= MAX_ATTEMPTS
               THEN /\ resp.status = 429
                    /\ e \in DOMAIN attempts
                    /\ attempts[e] = resp.prior
               ELSE /\ resp.status \in {200, 401}
                    /\ resp.status = 401
                           => /\ resp.body.remaining
                                     = MAX_ATTEMPTS - resp.prior.count - 1
                              /\ attempts[e] =
                                     [count |-> resp.prior.count + 1,
                                      last |-> resp.at]

\* A login exactly at the boundary of a full entry was answered 429.
C5_Witness ==
    \E e \in Emails :
        /\ AtBoundary(e)
        /\ resp.prior.count = MAX_ATTEMPTS
        /\ resp.status = 429

----------------------------------------------------------------------------
(* C6.  A login answered 429 changes nothing: the attempts Map (the        *)
(* identity's count and last, and every other identity's entry), the       *)
(* users Map (lastLogin included) and users.json are as before the call.   *)

C6_RejectedLoginChangesNothing ==
    [][\A r \in LoginRequests :
          (Login(r[1], r[2]) /\ resp'.status = 429)
              => /\ attempts' = attempts
                 /\ users' = users
                 /\ disk' = disk
                 /\ charged' = charged]_vars

\* A 429 was sent after the clock had moved on from the last failure,
\* while another identity had an entry and a user was registered.
C6_Witness ==
    \E e \in Emails :
        /\ LoginServed(e)
        /\ resp.status = 429
        /\ resp.at > resp.prior.last
        /\ DOMAIN attempts \ {e} # {}
        /\ Len(users) > 0

----------------------------------------------------------------------------
(* C7.  The k-th consecutive failed login of an identity (k counted from   *)
(* the last deletion of its entry) is answered 401 with                    *)
(* remaining = 5 - k, for k in 1..5; 429 is answered only once five        *)
(* failures are on record, that is from the sixth call on.                 *)

C7_RemainingCountsDown ==
    \A e \in Emails :
        LoginServed(e)
            => /\ resp.status = 401
                      => /\ charged[e] \in 1..MAX_ATTEMPTS
                         /\ resp.body.remaining = MAX_ATTEMPTS - charged[e]
               /\ resp.status = 429 => charged[e] = MAX_ATTEMPTS

\* The fifth failure was answered 401 with remaining = 0.
C7_Witness ==
    \E e \in Emails :
        /\ LoginServed(e)
        /\ resp.status = 401
        /\ charged[e] = MAX_ATTEMPTS
        /\ resp.body.remaining = 0

----------------------------------------------------------------------------
(* C8.  A well-formed register request for an email that has a record is   *)
(* answered 409; every register answered 400 or 409 leaves the users Map   *)
(* (ids, names, passwords, lastLogin, number of records) and users.json    *)
(* as they were.  A register answered 201 adds exactly one record.         *)

C8_FailedRegisterChangesNothing ==
    [][\A r \in RegisterRequests :
          Register(r[1], r[2], r[3])
              => /\ (r[1] # "" /\ r[2] # <<>> /\ MapHas(users, r[1]))
                        => resp'.status = 409
                 /\ resp'.status \in {400, 409}
                        => /\ users' = users
                           /\ disk' = disk
                           /\ uuids' = uuids
                 /\ resp'.status \in {201, 400, 409}
                 /\ resp'.status = 201
                        => /\ ~MapHas(users, r[1])
                           /\ Len(users') = Len(users) + 1]_vars

\* A second register of an email got 409 after that user had logged in.
C8_Witness ==
    \E e \in Emails :
        /\ resp.req.op = "register"
        /\ resp.req.email = e
        /\ resp.status = 409
        /\ MapHas(users, e)
        /\ Record(e).lastLogin # Null
        /\ Len(users) = 2

----------------------------------------------------------------------------
(* C9.  As claimed: a register request with a non-empty email and a        *)
(* non-empty password of fewer than 6 characters is answered 400 and       *)
(* creates no record.                                                      *)

MinPasswordLength == 6

C9_ShortPasswordRejected ==
    (/\ resp.req.op = "register"
     /\ resp.req.email # ""
     /\ resp.req.password # <<>>
     /\ Len(resp.req.password) < MinPasswordLength)
        => /\ resp.status = 400
           /\ \/ ~MapHas(users, resp.req.email)
              \/ Record(resp.req.email).password # resp.req.password

----------------------------------------------------------------------------
(* C10.  Handlers run one at a time, in any order of arrival.  For every   *)
(* identity the stored count equals the number of failed logins charged    *)
(* since its entry was last deleted, an entry has count >= 1, and neither  *)
(* number exceeds MAX_ATTEMPTS.                                            *)

C10_NoFailureLost ==
    \A e \in Emails :
        /\ AttemptsGet(attempts, e).count = charged[e]
        /\ charged[e] <= MAX_ATTEMPTS
        /\ e \in DOMAIN attempts => attempts[e].count >= 1

\* Logins of two identities interleaved: one is locked out at exactly five
\* charged failures and was just refused, the other has failures too.
C10_Witness ==
    \E e, f \in Emails :
        /\ e # f
        /\ LoginServed(e)
        /\ resp.status = 429
        /\ charged[e] = MAX_ATTEMPTS
        /\ attempts[e].count = MAX_ATTEMPTS
        /\ charged[f] >= 2

----------------------------------------------------------------------------
(* C11.  A failed login does not tell an unknown identity from a known one *)
(* with a wrong secret.  Whenever a registered identity has presented a    *)
(* secret other than the stored one, the response sent (status and body)   *)
(* and the attempt entry left are those the handler produces from the      *)
(* same clock and the same attempt entry when the identity has no record.  *)
(* As the two systems then agree again on clock and attempt entry, the     *)
(* same holds along any sequence of such logins.                           *)

\* The users Map without the record of e.
Unregistered(u, e) == SelectSeq(u, LAMBDA x : x[1] # e)

\* The attempts Map holding just the entry the last login found for e.
PriorAttempts(e) ==
    IF resp.prior = NoEntry THEN NoAttempts ELSE [k \in {e} |-> resp.prior]

C11_UnknownAndWrongSecretAlike ==
    \A e \in Emails :
        (/\ LoginServed(e)
         /\ MapHas(users, e)
         /\ Record(e).password # resp.req.password)
            => LET twin == LoginResult(Unregistered(users, e),
                                       PriorAttempts(e), e,
                                       resp.req.password, resp.at)
               IN  /\ twin.status = resp.status
                   /\ twin.body = resp.body
                   /\ AttemptsGet(twin.att, e) = AttemptsGet(attempts, e)

\* A registered identity with failures on record presented a wrong secret
\* and was answered 401.
C11_Witness ==
    \E e \in Emails :
        /\ LoginServed(e)
        /\ MapHas(users, e)
        /\ Record(e).password # resp.req.password
        /\ resp.prior.count >= 1
        /\ resp.status = 401

----------------------------------------------------------------------------
(* C12.  The count is measured against the most recent failure only.  A    *)
(* failed login that finds an entry whose last failure is more than        *)
(* LOCKOUT_MS old restarts the count at 1 (remaining = 4), whatever the    *)
(* count was; one that finds an entry not older than that raises the       *)
(* count by one, reports one less than was left, and moves last to now,    *)
(* whenever the run of failures began.                                     *)

C12_WindowSlides ==
    \A e \in Emails :
        (/\ LoginServed(e)
         /\ resp.status = 401
         /\ resp.prior.count >= 1)
            => IF resp.at - resp.prior.last > LOCKOUT_MS
               THEN /\ resp.prior.count \in 1..MAX_ATTEMPTS
                    /\ resp.body.remaining = MAX_ATTEMPTS - 1
                    /\ attempts[e] = [count |-> 1, last |-> resp.at]
               ELSE /\ resp.body.remaining
                           = MAX_ATTEMPTS - resp.prior.count - 1
                    /\ attempts[e] = [count |-> resp.prior.count + 1,
                                      last |-> resp.at]

\* A failure after the clock has passed the first window, one millisecond
\* after the previous failure: counted on, last moved to now.
C12_Witness ==
    \E e \in Emails :
        /\ LoginServed(e)
        /\ resp.status = 401
        /\ resp.prior.count >= 2
        /\ resp.at > LOCKOUT_MS
        /\ resp.prior.last = LOCKOUT_MS
        /\ attempts[e] = [count |-> resp.prior.count + 1, last |-> resp.at]

\* A failure that found an expired entry below the threshold.
C12_WitnessRestart ==
    \E e \in Emails :
        /\ LoginServed(e)
        /\ resp.status = 401
        /\ resp.prior.count \in 1..(MAX_ATTEMPTS - 1)
        /\ resp.at - resp.prior.last > LOCKOUT_MS
        /\ attempts[e].count = 1

----------------------------------------------------------------------------
(* C13.  A user record, once created, is never removed and keeps its       *)
(* place, key, id, email, name and password.  A record is created with     *)
(* lastLogin = null, by a register answered 201; lastLogin changes only    *)
(* in a login of that email answered 200, to the time of that login.       *)

C13_RecordsAreStable ==
    [][/\ Len(users') >= Len(users)
       /\ \A i \in 1..Len(users) :
              LET old == users[i][2]
                  new == users'[i][2]
              IN  /\ users'[i][1] = users[i][1]
                  /\ new.id = old.id
                  /\ new.email = old.email
                  /\ new.name = old.name
                  /\ new.password = old.password
                  /\ new.lastLogin # old.lastLogin
                         => /\ resp'.req.op = "login"
                            /\ resp'.req.email = users[i][1]
                            /\ resp'.status = 200
                            /\ new.lastLogin = toISOString(now)
       /\ \A i \in (Len(users) + 1)..Len(users') :
              /\ users'[i][2].lastLogin = Null
              /\ resp'.req.op = "register"
              /\ resp'.status = 201]_vars

\* Two records, one that has logged in and one that never has, after a
\* login that was not answered 200.
C13_Witness ==
    /\ Len(users) = 2
    /\ \E i, j \in 1..2 :
           /\ users[i][2].lastLogin # Null
           /\ users[j][2].lastLogin = Null
    /\ resp.req.op = "login"
    /\ resp.status \in {400, 401, 429}

----------------------------------------------------------------------------
(* C16.  A lockout ends by the clock alone.  The phase of an identity is   *)
(* NoLockout (no entry, or one older than LOCKOUT_MS), Counting(n) or      *)
(* Locked (count >= MAX_ATTEMPTS).  While Locked the entry is never        *)
(* written and every login is answered 429, so the only way out is the     *)
(* clock passing last + LOCKOUT_MS, after which a login is not answered    *)
(* 429.  Counting(n) moves to Counting(n + 1), Locked or NoLockout;        *)
(* NoLockout moves to Counting(1); no login is answered 200 from Locked.   *)

Phase(att, e, t) ==
    IF e \notin DOMAIN att \/ t - att[e].last > LOCKOUT_MS
    THEN <<"NoLockout", 0>>
    ELSE IF att[e].count >= MAX_ATTEMPTS
    THEN <<"Locked", 0>>
    ELSE <<"Counting", att[e].count>>

C16_LockoutEndsByClock ==
    [][\A e \in Emails :
          LET p == Phase(attempts, e, now)
              q == Phase(attempts', e, now')
              served == \E r \in LoginRequests :
                            r[1] = e /\ r[2] # <<>> /\ Login(r[1], r[2])
          IN  /\ p[1] = "Locked"
                     => /\ e \in DOMAIN attempts'
                        /\ attempts'[e] = attempts[e]
                        /\ q[1] \in {"Locked", "NoLockout"}
                        /\ q[1] = "NoLockout" => now' > now
                        /\ served => resp'.status = 429
              /\ p[1] = "Counting"
                     => \/ q = p
                        \/ q[1] = "NoLockout"
                        \/ /\ served
                           /\ q = IF p[2] + 1 = MAX_ATTEMPTS
                                  THEN <<"Locked", 0>>
                                  ELSE <<"Counting", p[2] + 1>>
              /\ p[1] = "NoLockout"
                     => /\ q \in {<<"NoLockout", 0>>, <<"Counting", 1>>}
                        /\ served => resp'.status # 429]_vars

\* A login was refused during a lockout, after the last failure; the entry
\* kept its time, and the clock has since ended the lockout.
C16_Witness ==
    \E e \in Emails :
        /\ LoginServed(e)
        /\ resp.status = 429
        /\ resp.at > resp.prior.last
        /\ attempts[e] = resp.prior
        /\ Phase(attempts, e, now) = <<"NoLockout", 0>>

----------------------------------------------------------------------------
(* C18.  Every attempts entry has 1 <= count <= MAX_ATTEMPTS and a last    *)
(* failure not later than the clock; every 401 carries a remaining value   *)
(* in 0..4.                                                                *)

C18_EntriesAndRemainingInRange ==
    /\ \A e \in DOMAIN attempts :
           /\ attempts[e].count \in 1..MAX_ATTEMPTS
           /\ attempts[e].last <= now
    /\ (resp.req.op = "login" /\ resp.status = 401)
           => resp.body.remaining \in 0..(MAX_ATTEMPTS - 1)

\* A full entry of an earlier instant, and a 401 that left nothing.
C18_Witness ==
    /\ \E e \in DOMAIN attempts :
           attempts[e].count = MAX_ATTEMPTS /\ attempts[e].last < now
    /\ resp.req.op = "login"
    /\ resp.status = 401
    /\ resp.body.remaining = 0

----------------------------------------------------------------------------
(* C19.  The two ways of computing the remaining count of a failed login   *)
(* agree.  In every state, for every identity that checkAttempts allows,   *)
(* the remaining value it returns less one equals the remaining value      *)
(* checkAttempts returns right after recordAttempt(email, false); and the  *)
(* value every 401 carried equals what checkAttempts returns on the        *)
(* attempts Map the login left.                                            *)

C19_DecrementEqualsRecheck ==
    /\ \A e \in Emails \ {""} :
           LET a == checkAttempts(attempts, e, now)
               after == recordAttempt(a.att, e, FALSE, now)
           IN  a.allowed
                  => OrZero(a.remaining) - 1
                        = checkAttempts(after, e, now).remaining
    /\ \A e \in Emails :
           (LoginServed(e) /\ resp.status = 401)
               => resp.body.remaining
                     = checkAttempts(attempts, e, resp.at).remaining

\* A 401 at each end of the range: the first failure and the fifth.
C19_Witness ==
    \E e, f \in Emails :
        /\ LoginServed(e)
        /\ resp.status = 401
        /\ resp.body.remaining = 0
        /\ f # e
        /\ AttemptsGet(attempts, f).count \in 1..(MAX_ATTEMPTS - 1)

----------------------------------------------------------------------------
(* C20.  Register never writes the attempts Map.  So failures charged to   *)
(* an email before it was registered still count: a registered identity    *)
(* that has never logged in, with five failures on record and the window   *)
(* not elapsed, is answered 429 when it presents its stored password.      *)

C20_RegisterKeepsAttempts ==
    [][/\ \A r \in RegisterRequests :
              Register(r[1], r[2], r[3]) => attempts' = attempts
       /\ \A r \in LoginRequests :
              (/\ Login(r[1], r[2])
               /\ MapHas(users, r[1])
               /\ Record(r[1]).lastLogin = Null
               /\ Record(r[1]).password = r[2]
               /\ charged[r[1]] >= MAX_ATTEMPTS
               /\ now - AttemptsGet(attempts, r[1]).last <= LOCKOUT_MS)
                  => resp'.status = 429]_vars

\* An identity that only ever presented the password it later registered
\* with is refused on its first login after registering.
C20_Witness ==
    /\ LoginServed("b@x.com")
    /\ MapHas(users, "b@x.com")
    /\ Record("b@x.com").lastLogin = Null
    /\ Record("b@x.com").password = resp.req.password
    /\ resp.prior.count = MAX_ATTEMPTS
    /\ resp.status = 429

----------------------------------------------------------------------------
(* C14.  As stated: any two access tokens login issued for one email at    *)
(* different instants of the clock are different tokens.  jwt.sign stamps  *)
(* iat in whole seconds, so two logins of one user at different            *)
(* milliseconds of the same second return the same token.                  *)

C14_TokensOfDifferentInstantsDiffer ==
    \A x, y \in issued :
        (x.email = y.email /\ x.at # y.at) => x.token # y.token

(* C14, amended.  Any two access tokens login issued for one email in      *)
(* different seconds of the clock are different tokens.                    *)

C14_TokensOfDifferentSecondsDiffer ==
    \A x, y \in issued :
        (x.email = y.email /\ x.at \div 1000 # y.at \div 1000)
            => x.token # y.token

\* One user has logged in at the start and a lockout window later, and
\* holds two different tokens.
C14_Witness ==
    \E x, y \in issued :
        /\ x.email = y.email
        /\ x.at = 0
        /\ y.at >= LOCKOUT_MS
        /\ x.token # y.token
        /\ resp.status = 200
        /\ resp.body.accessToken = y.token

----------------------------------------------------------------------------
(* C15.  In the variant of src/README.md, whatever the order in which      *)
(* concurrent logins of one registered email start and resume, the count   *)
(* of its loginAttempts entry never exceeds MAX_LOGIN_ATTEMPTS.  Logins    *)
(* that start while another is suspended at await verifyPassword all pass  *)
(* checkLoginAttempts on the same count, and each records its failure      *)
(* when it resumes.                                                        *)

C15_CountNeverExceedsMax ==
    \A e \in DOMAIN loginAttempts :
        loginAttempts[e].count <= MAX_LOGIN_ATTEMPTS

----------------------------------------------------------------------------
(* C17.  In the variant, POST /auth/refresh answers 200 exactly when the   *)
(* presented token verifies under JWT_REFRESH_SECRET and refreshTokens     *)
(* holds, under the token's tokenId, an entry whose token equals it; such  *)
(* an entry was put there by a login of this process for a registered      *)
(* user.  The new access token carries the email and userId of the         *)
(* refresh token, and refresh leaves refreshTokens, and everything but     *)
(* the response, unchanged.                                                *)

C17_RefreshOnlyForRegisteredToken ==
    [][\A token \in RefreshRequests :
          VariantRefresh(token)
              => /\ refreshTokens' = refreshTokens
                 /\ users' = users
                 /\ loginAttempts' = loginAttempts
                 /\ resp'.status = 200
                        <=> /\ "tokenId" \in DOMAIN token
                            /\ token.secret = JWT_REFRESH_SECRET
                            /\ now \div 1000 < token.exp
                            /\ token.tokenId \in DOMAIN refreshTokens
                            /\ refreshTokens[token.tokenId].token = token
                 /\ resp'.status = 200
                        => /\ resp'.body.accessToken.email = token.email
                           /\ resp'.body.accessToken.userId = token.userId
                           /\ resp'.body.accessToken.type = "access"
                           /\ resp'.body.accessToken.secret = JWT_SECRET
                           /\ "refreshToken" \notin DOMAIN resp'.body
                           /\ MapHas(users, token.email)
                           /\ MapGet(users, token.email).id = token.userId
                           /\ MapGet(users, token.email).lastLogin # Null
                           /\ token.tokenId <= uuids]_vars

\* A refresh token was exchanged some time after the login that issued
\* it, and is still in refreshTokens.
C17_Witness ==
    /\ resp.req.op = "refresh"
    /\ resp.status = 200
    /\ resp.at > resp.req.refreshToken.iat * 1000
    /\ resp.req.refreshToken.tokenId \in DOMAIN refreshTokens
    /\ resp.body.accessToken.iat > resp.req.refreshToken.iat

\* Refresh refused a token of each kind: badly signed or expired, and
\* well signed but not the registered one.
C17_WitnessRefused ==
    /\ resp.req.op = "refresh"
    /\ resp.status = 401
    /\ resp.body.error = "Refresh token not found"
    /\ resp.req.refreshToken.tokenId \in DOMAIN refreshTokens

=============================================================================
